---- MODULE Spec2Model ----
(***************************************************************************)
(* A model of prime-observer: the collector (bin/collector.py) that probes *)
(* a fixed list of targets and appends one row per target to a per-day CSV *)
(* dataset, and the window transform (bin/transform_latest.py) that        *)
(* publishes the trailing 24 hours of the newest dataset file as a         *)
(* snapshot.                                                               *)
(*                                                                         *)
(* Conventions of the model                                                *)
(*   - A Python value is a tagged record: None, Str(s) or Num(n).          *)
(*   - A text is a sequence of one-character strings; LF is the line       *)
(*     break, TAB the tab, SP the blank.                                   *)
(*   - A ping reply carries a whole number of ms.  The latency fields of a *)
(*     record count 1/1000 ms, so round(x, 3) is a rounding to an integer; *)
(*     loss_pct and the Mbps figures count 1/100, so round(x, 2) is one    *)
(*     too.  Arithmetic is exact; the bounded inputs are such that no      *)
(*     rounding meets a tie, where a binary float would decide.            *)
(*   - An instant is a number of minutes; a wall-clock time carries its    *)
(*     UTC offset in minutes.                                              *)
(*   - quantile alone is also computed in binary floating point, with a    *)
(*     mantissa of FloatBits bits and round-to-nearest-even, as            *)
(*     quantile_float.                                                     *)
(*   - A process is a position (cpc, tpc) and its locals; when two         *)
(*     invocations overlap, the one not running is kept in cpark or tpark. *)
(***************************************************************************)
EXTENDS Integers, Sequences, FiniteSets, TLC

VARIABLES
    datadir,    \* OUTDIR / DATA_DIR: file name (date) -> [exists, rows, mtime]
    tick,       \* file-system clock: the mtime the next write will stamp
    cpc,        \* collector: position in main()
    inv,        \* collector: number of invocations started
    cenv,       \* collector: locals of main() (phase, now, ts, dayfile, do_tr, do_st, st)
    chost,      \* collector: index in TARGETS of the host being probed
    cbuf,       \* collector: rows written to the open file object, not yet flushed
    ptrace,     \* collector: probes run by this invocation, in order
    dir0,       \* collector: the data directory when this invocation started
    cpark,      \* collector: the locals of a second invocation while it is not running
    pin,        \* ping harness: stdout handed to ping_target
    pout,       \* ping harness: what ping_target returned
    qin,        \* quantile harness: the samples handed to quantile
    qout,       \* quantile harness: what quantile returned for q = 0.5 and q = 0.95
    epath,      \* ensure_csv harness: the file at the path
    e0,         \* ensure_csv harness: the file at the path before the first call
    ecalls,     \* ensure_csv harness: number of calls made
    tpc,        \* transform: position in main()
    tenv,       \* transform: locals of main() (src, now, fieldnames, rows_out)
    vizdir,     \* VIZ_DIR exists
    viz,        \* the files of VIZ_DIR: file name -> [exists, rows]
    prev,       \* the files of VIZ_DIR when this transform run started
    printed,    \* transform: what main() printed
    tpark       \* transform: the locals of a second run while it is not running

vars == <<datadir, tick, cpc, inv, cenv, chost, cbuf, ptrace, dir0, cpark, pin, pout, qin, qout,
          epath, e0, ecalls, tpc, tenv, vizdir, viz, prev, printed, tpark>>

collectorVars == <<cpc, inv, cenv, chost, cbuf, ptrace, dir0, cpark>>
pingVars      == <<pin, pout, qin, qout>>
ensureVars    == <<epath, e0, ecalls>>
transformVars == <<tpc, tenv, vizdir, viz, prev, printed, tpark>>

-----------------------------------------------------------------------------
(* Python values *)

None   == [k |-> "none", v |-> 0]
Str(s) == [k |-> "str", v |-> s]
Num(n) == [k |-> "num", v |-> n]
Empty  == Str(<<>>)

LF  == "\n"
TAB == "\t"
SP  == " "
BAR == "|"

Min(a, b) == IF a <= b THEN a ELSE b
Max(a, b) == IF a >= b THEN a ELSE b

\* round(a / b, digits) on scaled integers: nearest integer to a / b, ties to even.
RoundDiv(a, b) ==
    LET q == a \div b
        r == a % b
    IN  IF 2 * r < b THEN q
        ELSE IF 2 * r > b THEN q + 1
        ELSE IF q % 2 = 0 THEN q ELSE q + 1

RECURSIVE SeqSum(_)
SeqSum(s) == IF s = <<>> THEN 0 ELSE Head(s) + SeqSum(Tail(s))

RECURSIVE SeqSumSq(_)
SeqSumSq(s) == IF s = <<>> THEN 0 ELSE Head(s) * Head(s) + SeqSumSq(Tail(s))

RECURSIVE SeqMax(_)
SeqMax(s) == IF Len(s) = 1 THEN s[1] ELSE Max(Head(s), SeqMax(Tail(s)))

RECURSIVE SeqMin(_)
SeqMin(s) == IF Len(s) = 1 THEN s[1] ELSE Min(Head(s), SeqMin(Tail(s)))

RECURSIVE Insert(_, _)
Insert(x, s) ==
    IF s = <<>> THEN <<x>>
    ELSE IF x <= Head(s) THEN <<x>> \o s
    ELSE <<Head(s)>> \o Insert(x, Tail(s))

\* sorted(values)
RECURSIVE sorted(_)
sorted(s) == IF s = <<>> THEN <<>> ELSE Insert(Head(s), sorted(Tail(s)))

-----------------------------------------------------------------------------
(* Text: str.splitlines, str.join, str.strip, str.replace *)

IsSpace(c) == c \in {SP, TAB, LF}

\* str.splitlines(): the lines of a text, line breaks removed; a trailing
\* line break opens no further line.
RECURSIVE SplitAcc(_, _, _)
SplitAcc(s, cur, acc) ==
    IF s = <<>> THEN (IF cur = <<>> THEN acc ELSE Append(acc, cur))
    ELSE IF Head(s) = LF THEN SplitAcc(Tail(s), <<>>, Append(acc, cur))
    ELSE SplitAcc(Tail(s), Append(cur, Head(s)), acc)

splitlines(s) == SplitAcc(s, <<>>, <<>>)

\* " | ".join(lines)
RECURSIVE join(_)
join(lines) ==
    IF lines = <<>> THEN <<>>
    ELSE IF Len(lines) = 1 THEN lines[1]
    ELSE lines[1] \o <<SP, BAR, SP>> \o join(Tail(lines))

RECURSIVE lstrip(_)
lstrip(s) == IF s # <<>> /\ IsSpace(Head(s)) THEN lstrip(Tail(s)) ELSE s

RECURSIVE rstrip(_)
rstrip(s) ==
    IF s # <<>> /\ IsSpace(s[Len(s)]) THEN rstrip(SubSeq(s, 1, Len(s) - 1)) ELSE s

\* str.strip()
strip(s) == rstrip(lstrip(s))

\* s.replace("\t", " ")
replace_tab(s) == [i \in 1..Len(s) |-> IF s[i] = TAB THEN SP ELSE s[i]]

-----------------------------------------------------------------------------
(* collector.py: constants *)

TARGETS == <<"192.168.1.1", "1.1.1.1", "9.9.9.9">>
PING_COUNT == 10
TRACEROUTE_EVERY_MIN == 15
SPEEDTEST_EVERY_MIN == 30
SNIP_LINES == 12

FIELDNAMES ==
    <<"ts", "phase_label", "host", "sent", "received", "loss_pct", "avg_ms",
      "p50_ms", "p95_ms", "max_ms", "jitter_ms", "traceroute_snip",
      "speedtest_down_mbps", "speedtest_up_mbps", "speedtest_ping_ms",
      "speedtest_raw_json">>

\* The outcome of subprocess.run (run, line 43): the process ran and exited
\* with returncode rc and stdout, or run raised (TimeoutExpired when the
\* timeout elapsed, FileNotFoundError when the executable is missing).
Ran(rc, stdout) == [how |-> "ran", returncode |-> rc, stdout |-> stdout]
TimedOut        == [how |-> "timeout", returncode |-> 0, stdout |-> <<>>]
Missing         == [how |-> "missing", returncode |-> 0, stdout |-> <<>>]

\* run(cmd, timeout): TRUE when the call raises instead of returning.
run_raises(outcome) == outcome.how # "ran"

-----------------------------------------------------------------------------
(* collector.py: the latency adapter *)

\* A line of ping output is one of
\*   [m |-> "no",  t |-> 0]   no time=<number> ms in it
\*   [m |-> "num", t |-> n]   time=n ms, n a whole number of ms
\*   [m |-> "bad", t |-> 0]   PING_RE matches text float() rejects ("1.2.3", ".")
NoMatch   == [m |-> "no", t |-> 0]
BadNumber == [m |-> "bad", t |-> 0]
Time(n)   == [m |-> "num", t |-> n]

\* parse_ping_times_ms: the times of the matching lines, in order.  The
\* result is [raised, times]: float() raises ValueError on a BadNumber line.
RECURSIVE ParseTimes(_)
ParseTimes(lines) ==
    IF lines = <<>> THEN <<>>
    ELSE IF Head(lines).m = "num" THEN <<Head(lines).t>> \o ParseTimes(Tail(lines))
    ELSE ParseTimes(Tail(lines))

parse_ping_times_ms(ping_stdout) ==
    [raised |-> \E i \in 1..Len(ping_stdout) : ping_stdout[i].m = "bad",
     times  |-> ParseTimes(ping_stdout)]

\* quantile(values, q), q given in percent; the result counts 1/100 of the
\* unit of the values, None for no values.
quantile(values, q) ==
    IF values = <<>> THEN None
    ELSE LET v    == sorted(values)
             idx  == (Len(v) - 1) * q              \* in 1/100
             lo   == idx \div 100
             hi   == Min(lo + 1, Len(v) - 1)
             frac == idx - lo * 100                \* in 1/100
         IN  IF hi = lo THEN Num(v[lo + 1] * 100)
             ELSE Num(v[lo + 1] * (100 - frac) + v[hi + 1] * frac)

\* the largest r in lo..hi with (2r - 1)^2 * nn <= x, by bisection
RECURSIVE NearestRoot(_, _, _, _)
NearestRoot(lo, hi, nn, x) ==
    IF lo >= hi THEN lo
    ELSE LET mid == (lo + hi + 1) \div 2
         IN  IF (2 * mid - 1) * (2 * mid - 1) * nn <= x
             THEN NearestRoot(mid, hi, nn, x)
             ELSE NearestRoot(lo, mid - 1, nn, x)

\* statistics.pstdev(times), rounded to 3 digits: the integer nearest to
\* 1000 * sqrt(n * sum(x^2) - sum(x)^2) / n, ties to even.
pstdev_rounded(times) ==
    LET n    == Len(times)
        d    == n * SeqSumSq(times) - SeqSum(times) * SeqSum(times)
        r0   == NearestRoot(0, 1000 * (SeqMax(times) - SeqMin(times)), n * n, 4 * 1000000 * d)
        cand == {r \in {Max(r0 - 1, 0), r0} :
                    /\ (r = 0 \/ (2 * r - 1) * (2 * r - 1) * n * n <= 4 * 1000000 * d)
                    /\ 4 * 1000000 * d <= (2 * r + 1) * (2 * r + 1) * n * n}
    IN  IF Cardinality(cand) = 1 THEN CHOOSE r \in cand : TRUE
        ELSE CHOOSE r \in cand : r % 2 = 0

\* jitter (line 93): pstdev for two samples or more, else 0.0
jitter_of(times) == IF Len(times) >= 2 THEN Num(pstdev_rounded(times)) ELSE Num(0)

\* ping_target, lines 83-104, from the stdout of the ping process.
ping_stats(times, count) ==
    LET sent     == count
        received == Len(times)
        p50      == quantile(times, 50)
        p95      == quantile(times, 95)
        jitter   == jitter_of(times)
    IN  [sent      |-> Num(sent),
         received  |-> Num(received),
         loss_pct  |-> IF sent # 0
                       THEN Num(RoundDiv(100 * 100 * (sent - received), sent))
                       ELSE Num(0),
         avg_ms    |-> IF times # <<>> THEN Num(RoundDiv(1000 * SeqSum(times), Len(times)))
                       ELSE Empty,
         p50_ms    |-> IF times # <<>> THEN Num(RoundDiv(1000 * p50.v, 100)) ELSE Empty,
         p95_ms    |-> IF times # <<>> THEN Num(RoundDiv(1000 * p95.v, 100)) ELSE Empty,
         max_ms    |-> IF times # <<>> THEN Num(1000 * SeqMax(times)) ELSE Empty,
         jitter_ms |-> IF jitter # None THEN jitter ELSE Empty]

\* ping_target(host, count): [raised, result].  run raises on timeout or a
\* missing /sbin/ping; parse_ping_times_ms raises on a BadNumber line.
ping_target(outcome, count) ==
    IF run_raises(outcome) THEN [raised |-> TRUE, result |-> None]
    ELSE LET p == parse_ping_times_ms(outcome.stdout)
         IN  IF p.raised THEN [raised |-> TRUE, result |-> None]
             ELSE [raised |-> FALSE, result |-> ping_stats(p.times, count)]

-----------------------------------------------------------------------------
(* collector.py: quantile as binary floating point computes it              *)
(*                                                                         *)
(* A float is [m, e], the number m * 2^e with 0 <= m < 2^FloatBits, kept   *)
(* normalised (m = 0, or m >= 2^(FloatBits - 1)).  Every operation returns *)
(* the float nearest to the exact result, ties to even, as IEEE 754 does;  *)
(* Python's float has 53 bits where this one has FloatBits.                *)

FloatBits == 8

RECURSIVE Pow2(_)
Pow2(n) == IF n = 0 THEN 1 ELSE 2 * Pow2(n - 1)

RECURSIVE BitLen(_)
BitLen(m) == IF m = 0 THEN 0 ELSE 1 + BitLen(m \div 2)

\* the float nearest to m * 2^e
Fl(m, e) ==
    IF m = 0 THEN [m |-> 0, e |-> 0]
    ELSE LET b == BitLen(m)
         IN  IF b <= FloatBits
             THEN [m |-> m * Pow2(FloatBits - b), e |-> e - (FloatBits - b)]
             ELSE LET s  == b - FloatBits
                      q  == m \div Pow2(s)
                      r  == m % Pow2(s)
                      q1 == IF 2 * r > Pow2(s) \/ (2 * r = Pow2(s) /\ q % 2 = 1)
                            THEN q + 1 ELSE q
                  IN  IF q1 = Pow2(FloatBits)
                      THEN [m |-> Pow2(FloatBits - 1), e |-> e + s + 1]
                      ELSE [m |-> q1, e |-> e + s]

\* float(n) of an integer n
float_of_int(n) == Fl(n, 0)

\* the float of a decimal literal num / den in [1/2, 1)
float_of_ratio(num, den) == Fl(RoundDiv(num * Pow2(FloatBits), den), -FloatBits)

\* a * b, a + b and a - b (for a >= b) on floats
fmul(a, b) == Fl(a.m * b.m, a.e + b.e)
fadd(a, b) ==
    IF a.m = 0 THEN b
    ELSE IF b.m = 0 THEN a
    ELSE LET e == Min(a.e, b.e)
         IN  Fl(a.m * Pow2(a.e - e) + b.m * Pow2(b.e - e), e)
fsub(a, b) ==
    IF b.m = 0 THEN a
    ELSE LET e == Min(a.e, b.e)
         IN  Fl(a.m * Pow2(a.e - e) - b.m * Pow2(b.e - e), e)

\* a <= b on floats
fle(a, b) ==
    LET e == Min(a.e, b.e)
    IN  a.m * Pow2(a.e - e) <= b.m * Pow2(b.e - e)

\* int(a)
int_of_float(a) == IF a.e >= 0 THEN a.m * Pow2(a.e) ELSE a.m \div Pow2(-a.e)

RECURSIVE InsertFloat(_, _)
InsertFloat(x, s) ==
    IF s = <<>> THEN <<x>>
    ELSE IF fle(x, Head(s)) THEN <<x>> \o s
    ELSE <<Head(s)>> \o InsertFloat(x, Tail(s))

\* sorted(values) on floats
RECURSIVE sorted_floats(_)
sorted_floats(s) == IF s = <<>> THEN <<>> ELSE InsertFloat(Head(s), sorted_floats(Tail(s)))

\* the interpolation with the weights exchanged
quantile_float_weights_swapped(values, q) ==
    IF values = <<>> THEN None
    ELSE LET v    == sorted_floats(values)
             idx  == fmul(float_of_int(Len(v) - 1), q)
             lo   == int_of_float(idx)
             hi   == Min(lo + 1, Len(v) - 1)
             frac == fsub(idx, float_of_int(lo))
         IN  IF hi = lo THEN v[lo + 1]
             ELSE fadd(fmul(v[lo + 1], frac),
                       fmul(v[hi + 1], fsub(float_of_int(1), frac)))

\* quantile(values, q), lines 54-64, on floats
quantile_float(values, q) ==
    IF values = <<>> THEN None
    ELSE LET v    == sorted_floats(values)
             idx  == fmul(float_of_int(Len(v) - 1), q)
             lo   == int_of_float(idx)
             hi   == Min(lo + 1, Len(v) - 1)
             frac == fsub(idx, float_of_int(lo))
         IN  IF hi = lo THEN v[lo + 1]
             ELSE fadd(fmul(v[lo + 1], fsub(float_of_int(1), frac)),
                       fmul(v[hi + 1], frac))

-----------------------------------------------------------------------------
(* collector.py: the route adapter *)

\* traceroute_snip(host): [raised, result]; the first SNIP_LINES lines of
\* the traceroute output joined by " | " and stripped.
traceroute_snip(outcome) ==
    IF run_raises(outcome) THEN [raised |-> TRUE, result |-> None]
    ELSE LET lines == splitlines(outcome.stdout)
         IN  [raised |-> FALSE,
              result |-> Str(strip(join(SubSeq(lines, 1, Min(SNIP_LINES, Len(lines))))))]

-----------------------------------------------------------------------------
(* collector.py: the bandwidth adapter *)

\* What the speedtest tool prints is a text and what json.loads makes of it:
\*   json.kind   "invalid" (json.loads raises), "nonobject" (a list, a number:
\*               data.get raises) or "object"
\*   json.download, json.upload, json.ping, the value reached by
\*   data.get(a, {}).get(b, None):
\*       Absent    the key is missing or null
\*       BadField  the outer value is no object, or float() rejects the value
\*       Field(n)  a number
Absent   == [f |-> "absent", x |-> 0]
BadField == [f |-> "bad", x |-> 0]
Field(n) == [f |-> "num", x |-> n]

Payload(text, kind, d, u, p) ==
    [text |-> text, json |-> [kind |-> kind, download |-> d, upload |-> u, ping |-> p]]

\* bw_to_mbps then round(.., 2): x bytes/s are x * 8 / 1000000 Mbps, that is
\* x * 8 / 10000 hundredths of a Mbps.
bw_to_mbps(x) == IF x.f = "absent" THEN None ELSE Num(RoundDiv(x.x * 8, 10000))

\* round(float(ping_ms), 2), the latency given in 1/1000 ms
ping_ms_of(x) == IF x.f = "absent" THEN None ELSE Num(RoundDiv(x.x, 10))

\* lines 123-142: the dictionary built from the payload, None when the
\* try block raises.
parse_speedtest(stdout) ==
    LET data == stdout.json
    IN  IF \/ data.kind # "object"
           \/ BadField \in {data.download, data.upload, data.ping}
        THEN None
        ELSE [k |-> "dict",
              v |-> [down_mbps |-> bw_to_mbps(data.download),
                     up_mbps   |-> bw_to_mbps(data.upload),
                     ping_ms   |-> ping_ms_of(data.ping),
                     raw_json  |-> Str(strip(stdout.text))]]

\* run_ookla_speedtest(): [raised, result].  have is shutil.which's answer;
\* run (line 119) is outside the try block.
run_ookla_speedtest(have, outcome) ==
    IF ~have THEN [raised |-> FALSE, result |-> None]
    ELSE IF run_raises(outcome) THEN [raised |-> TRUE, result |-> None]
    ELSE IF outcome.returncode # 0 THEN [raised |-> FALSE, result |-> None]
    ELSE [raised |-> FALSE, result |-> parse_speedtest(outcome.stdout)]

-----------------------------------------------------------------------------
(* collector.py: scheduling, phase label, dataset file *)

\* A wall-clock time: date (day number), hour, minute, and the zone:
\* aware with the UTC offset off in minutes, or naive.
Clock(d, h, m, off) == [date |-> d, hour |-> h, minute |-> m, aware |-> TRUE, off |-> off]

\* the hour not converted to minutes
minute_bucket_hours_added(now) == now.hour + now.minute

minute_bucket(now) == now.hour * 60 + now.minute

UNKNOWN == <<"U", "N", "K", "N", "O", "W", "N">>

\* the phase file consulted before the environment
read_phase_file_first(env_phase, phase_file) ==
    IF phase_file.exists /\ strip(phase_file.text) # <<>> THEN strip(phase_file.text)
    ELSE IF strip(env_phase) # <<>> THEN strip(env_phase)
    ELSE UNKNOWN

\* read_phase(): env_phase is os.environ.get("PHASE", ""), phase_file is
\* PHASE_FILE as [exists, text].
read_phase(env_phase, phase_file) ==
    IF strip(env_phase) # <<>> THEN strip(env_phase)
    ELSE IF phase_file.exists
         THEN (IF strip(phase_file.text) # <<>> THEN strip(phase_file.text) ELSE UNKNOWN)
         ELSE UNKNOWN

\* Cells of a CSV file.  Name(s) is a text whose characters play no role (a
\* column name, a host), Ts(c) the ISO text of the wall-clock time c.
Name(s) == [k |-> "name", v |-> s]
Ts(c)   == [k |-> "ts", v |-> c]

\* A file of the data directory: a sequence of CSV records, each a sequence
\* of cells, and the modification time.
AbsentFile == [exists |-> FALSE, rows |-> <<>>, mtime |-> 0]
File(rows, mtime) == [exists |-> TRUE, rows |-> rows, mtime |-> mtime]

\* DictWriter.writeheader()
HeaderRow == [i \in 1..Len(FIELDNAMES) |-> Name(FIELDNAMES[i])]

\* csv writes None as the empty string.
csv_cell(v) == IF v = None THEN Empty ELSE v

\* DictWriter(f, fieldnames=FIELDNAMES).writerow(row)
writerow(row) == [i \in 1..Len(FIELDNAMES) |-> csv_cell(row[FIELDNAMES[i]])]

\* what is left of a row whose first bytes were overwritten
TornRow == <<Name("torn")>>

\* path.open("w") (line 158): the file is created, or emptied when it is there
open_w(file, now_tick) == File(<<>>, now_tick)

\* The header reaches the file at offset 0 when the file object of line 158
\* is closed.  On an empty file it is the first row.  When rows were
\* appended since the file was opened, the header replaces the first bytes
\* of the file: nothing changes when these are a header, else the header
\* takes the place of the first k rows, whole or leaving the end of a row.
header_at_start(rows) ==
    IF rows = <<>> THEN {<<HeaderRow>>}
    ELSE IF Head(rows) = HeaderRow THEN {rows}
    ELSE {<<HeaderRow>> \o t \o SubSeq(rows, k + 1, Len(rows)) :
             k \in 1..Len(rows), t \in {<<>>, <<TornRow>>}}

\* the header written without the exists() test
ensure_csv_unguarded(file, now_tick) == File(<<HeaderRow>>, now_tick)

\* ensure_csv(path): the file after the call, written at time now_tick.
ensure_csv(file, now_tick) ==
    IF ~file.exists THEN File(<<HeaderRow>>, now_tick) ELSE file

\* the file opened in mode "w" instead: the buffered rows replace the file
append_rows_truncating(file, buf, now_tick) ==
    IF buf = <<>> THEN file ELSE File(<<HeaderRow>> \o buf, now_tick)

\* the last of the rows handed over in part: its first three fields
append_rows_torn(file, buf, now_tick) ==
    IF buf = <<>> THEN file
    ELSE File(file.rows \o SubSeq(buf, 1, Len(buf) - 1) \o <<SubSeq(buf[Len(buf)], 1, 3)>>,
              now_tick)

\* closing the file opened in mode "a" flushes the buffered rows after the
\* rows already there.
append_rows(file, buf, now_tick) ==
    IF buf = <<>> THEN file ELSE File(file.rows \o buf, now_tick)

\* the bandwidth result kept for the first host only
make_row_first_host_only(env, host, snip, ping) ==
    LET st == IF host = TARGETS[1] THEN env.st ELSE None
    IN  [ts                  |-> env.ts,
         phase_label         |-> Str(env.phase),
         host                |-> Name(host),
         traceroute_snip     |-> snip,
         speedtest_down_mbps |-> IF st # None THEN st.v.down_mbps ELSE Empty,
         speedtest_up_mbps   |-> IF st # None THEN st.v.up_mbps ELSE Empty,
         speedtest_ping_ms   |-> IF st # None THEN st.v.ping_ms ELSE Empty,
         speedtest_raw_json  |-> IF st # None THEN st.v.raw_json ELSE Empty,
         sent                |-> ping.sent,
         received            |-> ping.received,
         loss_pct            |-> ping.loss_pct,
         avg_ms              |-> ping.avg_ms,
         p50_ms              |-> ping.p50_ms,
         p95_ms              |-> ping.p95_ms,
         max_ms              |-> ping.max_ms,
         jitter_ms           |-> ping.jitter_ms]

\* main(), lines 178-188: the row of one host.
make_row(env, host, snip, ping) ==
    [ts                  |-> env.ts,
     phase_label         |-> Str(env.phase),
     host                |-> Name(host),
     traceroute_snip     |-> snip,
     speedtest_down_mbps |-> IF env.st # None THEN env.st.v.down_mbps ELSE Empty,
     speedtest_up_mbps   |-> IF env.st # None THEN env.st.v.up_mbps ELSE Empty,
     speedtest_ping_ms   |-> IF env.st # None THEN env.st.v.ping_ms ELSE Empty,
     speedtest_raw_json  |-> IF env.st # None THEN env.st.v.raw_json ELSE Empty,
     sent                |-> ping.sent,
     received            |-> ping.received,
     loss_pct            |-> ping.loss_pct,
     avg_ms              |-> ping.avg_ms,
     p50_ms              |-> ping.p50_ms,
     p95_ms              |-> ping.p95_ms,
     max_ms              |-> ping.max_ms,
     jitter_ms           |-> ping.jitter_ms]

-----------------------------------------------------------------------------
(* collector.py: main() *)

MaxInvocations == 1

\* the locals of main(), and what read_phase() found: the value of PHASE in
\* the environment and the phase file
NoEnv ==
    [phase |-> <<>>, now |-> Clock(0, 0, 0, 0), ts |-> Empty, dayfile |-> 0,
     bucket |-> 0, do_tr |-> FALSE, do_st |-> FALSE, st |-> None,
     env_phase |-> <<>>, phase_file |-> [exists |-> FALSE, text |-> <<>>]]

Probe(p, h) == [p |-> p, h |-> h]

\* lines 169-171: bucket, do_tr, do_st
with_cadence(env) ==
    [env EXCEPT !.bucket = minute_bucket(env.now),
                !.do_tr = (minute_bucket(env.now) % TRACEROUTE_EVERY_MIN = 0),
                !.do_st = (minute_bucket(env.now) % SPEEDTEST_EVERY_MIN = 0)]

\* lines 162-166: phase, now, ts, dayfile
CStart(Nows, Envs, PhaseFiles) ==
    /\ UNCHANGED <<pingVars, ensureVars, transformVars>>
    /\ cpc \in {"idle", "done", "failed"}
    /\ inv < MaxInvocations
    /\ \E now \in Nows, env_phase \in Envs, phase_file \in PhaseFiles :
          cenv' = [NoEnv EXCEPT !.phase = read_phase(env_phase, phase_file),
                                !.env_phase = env_phase,
                                !.phase_file = phase_file,
                                !.now = now,
                                !.ts = Ts(now),
                                !.dayfile = now.date]
    /\ inv' = inv + 1
    /\ cpc' = "ensure"
    /\ chost' = 0
    /\ cbuf' = <<>>
    /\ ptrace' = <<>>
    /\ dir0' = datadir
    /\ UNCHANGED <<datadir, tick, cpark>>

\* lines 167, 156: ensure_csv(dayfile) tests path.exists(); when the file is
\* there, main goes on with lines 169-171
CEnsure ==
    /\ UNCHANGED <<pingVars, ensureVars, transformVars>>
    /\ cpc = "ensure"
    /\ IF datadir[cenv.dayfile].exists
       THEN cpc' = "speedtest" /\ cenv' = with_cadence(cenv)
       ELSE cpc' = "ensure_open" /\ cenv' = cenv
    /\ UNCHANGED <<datadir, tick, inv, chost, cbuf, ptrace, dir0, cpark>>

\* line 158: path.open("w", newline="")
CEnsureOpen ==
    /\ UNCHANGED <<pingVars, ensureVars, transformVars>>
    /\ cpc = "ensure_open"
    /\ datadir' = [datadir EXCEPT ![cenv.dayfile] = open_w(@, tick)]
    /\ cpc' = "ensure_header"
    /\ UNCHANGED <<tick, inv, cenv, chost, cbuf, ptrace, dir0, cpark>>

\* line 159: writeheader(), and the file closed; then lines 169-171
CEnsureHeader ==
    /\ UNCHANGED <<pingVars, ensureVars, transformVars>>
    /\ cpc = "ensure_header"
    /\ \E rows \in header_at_start(datadir[cenv.dayfile].rows) :
          datadir' = [datadir EXCEPT ![cenv.dayfile] = File(rows, tick)]
    /\ tick' = tick + 1
    /\ cenv' = with_cadence(cenv)
    /\ cpc' = "speedtest"
    /\ UNCHANGED <<inv, chost, cbuf, ptrace, dir0, cpark>>

\* line 173: st = run_ookla_speedtest() if do_st else None
CSpeedtest(Haves, Outcomes) ==
    /\ UNCHANGED <<pingVars, ensureVars, transformVars>>
    /\ cpc = "speedtest"
    /\ IF cenv.do_st
       THEN \E have \in Haves, outcome \in Outcomes :
               LET r == run_ookla_speedtest(have, outcome)
               IN  /\ cpc' = IF r.raised THEN "failed" ELSE "open"
                   /\ cenv' = [cenv EXCEPT !.st = r.result]
                   /\ ptrace' = Append(ptrace, Probe("speedtest", 0))
       ELSE /\ cpc' = "open"
            /\ cenv' = [cenv EXCEPT !.st = None]
            /\ ptrace' = ptrace
    /\ UNCHANGED <<datadir, tick, inv, chost, cbuf, dir0, cpark>>

\* line 175: with dayfile.open("a", newline="") as f
COpen ==
    /\ UNCHANGED <<pingVars, ensureVars, transformVars>>
    /\ cpc = "open"
    /\ cpc' = "loop"
    /\ chost' = 1
    /\ cbuf' = <<>>
    /\ UNCHANGED <<datadir, tick, inv, cenv, ptrace, dir0, cpark>>

\* An exception inside the with block closes the file, which flushes the
\* rows written so far, and ends main().
CRaise(trace) ==
    /\ cpc' = "failed"
    /\ datadir' = [datadir EXCEPT ![cenv.dayfile] = append_rows(@, cbuf, tick)]
    /\ tick' = IF cbuf = <<>> THEN tick ELSE tick + 1
    /\ cbuf' = <<>>
    /\ ptrace' = trace
    /\ UNCHANGED <<inv, cenv, chost, dir0, cpark>>

\* lines 177-189: one iteration of the loop over TARGETS
CTarget(Traces, Pings) ==
    /\ UNCHANGED <<pingVars, ensureVars, transformVars>>
    /\ cpc = "loop"
    /\ chost <= Len(TARGETS)
    /\ \E tro \in (IF cenv.do_tr THEN Traces ELSE {Ran(0, <<>>)}), po \in Pings :
          LET tr  == IF cenv.do_tr THEN traceroute_snip(tro)
                     ELSE [raised |-> FALSE, result |-> Empty]
              t1  == IF cenv.do_tr THEN Append(ptrace, Probe("traceroute", chost))
                     ELSE ptrace
              pg  == ping_target(po, PING_COUNT)
              t2  == Append(t1, Probe("ping", chost))
          IN  IF tr.raised THEN CRaise(t1)
              ELSE IF pg.raised THEN CRaise(t2)
              ELSE /\ cbuf' = Append(cbuf,
                                 writerow(make_row(cenv, TARGETS[chost], tr.result, pg.result)))
                   /\ chost' = chost + 1
                   /\ ptrace' = t2
                   /\ UNCHANGED <<datadir, tick, inv, cenv, cpc, dir0, cpark>>

\* line 189, w.writerow(row): when the rows held by the file object exceed
\* its buffer, the file object hands them, whole, to the file, which being
\* opened in mode "a" takes them at its end.  The size of a row is not
\* modelled, so this may happen after any row.
CFlush ==
    /\ UNCHANGED <<pingVars, ensureVars, transformVars>>
    /\ cpc = "loop"
    /\ cbuf # <<>>
    /\ datadir' = [datadir EXCEPT ![cenv.dayfile] = append_rows(@, cbuf, tick)]
    /\ tick' = tick + 1
    /\ cbuf' = <<>>
    /\ UNCHANGED <<cpc, inv, cenv, chost, ptrace, dir0, cpark>>

\* leaving the with block: the file is closed and the buffered rows reach it
CClose ==
    /\ UNCHANGED <<pingVars, ensureVars, transformVars>>
    /\ cpc = "loop"
    /\ chost > Len(TARGETS)
    /\ datadir' = [datadir EXCEPT ![cenv.dayfile] = append_rows(@, cbuf, tick)]
    /\ tick' = IF cbuf = <<>> THEN tick ELSE tick + 1
    /\ cbuf' = <<>>
    /\ cpc' = "done"
    /\ UNCHANGED <<inv, cenv, chost, ptrace, dir0, cpark>>

\* The locals of an invocation that is not running, and the scheduler
\* passing from one invocation to the other.
NoPark ==
    [cpc |-> "idle", inv |-> 0, cenv |-> NoEnv, chost |-> 0, cbuf |-> <<>>,
     ptrace |-> <<>>, dir0 |-> <<>>]

CSwitch ==
    /\ UNCHANGED <<pingVars, ensureVars, transformVars>>
    /\ cpark # NoPark
    /\ cpark' = [cpc |-> cpc, inv |-> inv, cenv |-> cenv, chost |-> chost, cbuf |-> cbuf,
                 ptrace |-> ptrace, dir0 |-> dir0]
    /\ cpc' = cpark.cpc
    /\ inv' = cpark.inv
    /\ cenv' = cpark.cenv
    /\ chost' = cpark.chost
    /\ cbuf' = cpark.cbuf
    /\ ptrace' = cpark.ptrace
    /\ dir0' = cpark.dir0
    /\ UNCHANGED <<datadir, tick>>

-----------------------------------------------------------------------------
(* transform_latest.py *)

WINDOW_HOURS == 24
\* WINDOW, in minutes
WINDOW == WINDOW_HOURS * 60

OUT == "latest.csv"

\* the temporary file is the snapshot file itself
tmp_in_place == OUT

\* line 67: tmp = OUT.with_suffix(".csv.tmp")
tmp_path == "latest.csv.tmp"

VizNames == {"latest.csv", "latest.csv.tmp"}
NoFile == [exists |-> FALSE, rows |-> <<>>]
EmptyViz == [n \in VizNames |-> NoFile]

NaiveClock(d, h, m) == [date |-> d, hour |-> h, minute |-> m, aware |-> FALSE, off |-> 0]

\* the tabs left in place
sanitize_field_keeping_tabs(s) ==
    IF s = None THEN Empty
    ELSE IF s.k = "str" THEN Str(strip(join(splitlines(s.v))))
    ELSE s

\* sanitize_field(s)
sanitize_field(s) ==
    IF s = None THEN Empty
    ELSE IF s.k = "str" THEN Str(strip(replace_tab(join(splitlines(s.v)))))
    ELSE s

\* the file chosen by name: the greatest file name (the latest date)
newest_by_name(dir) ==
    IF \A d \in DOMAIN dir : ~dir[d].exists THEN {}
    ELSE {d \in DOMAIN dir : dir[d].exists /\ \A e \in DOMAIN dir : dir[e].exists => e <= d}

\* newest_by_mtime(): the files max() can return, none ({}) when the
\* directory holds no dataset file; among files of one mtime, the one the
\* directory listing gives first, which may be any.
newest_by_mtime(dir) ==
    IF \A d \in DOMAIN dir : ~dir[d].exists THEN {}
    ELSE {d \in DOMAIN dir :
             dir[d].exists /\ \A e \in DOMAIN dir : dir[e].exists => dir[e].mtime <= dir[d].mtime}

\* parse_ts(ts): the wall-clock time of an ISO text, None for any other
\* text and for None (fromisoformat raises).
parse_ts(ts) == IF ts.k = "ts" THEN ts.v ELSE None

\* the UTC offset of an aware time is not applied
to_utc_wall_clock(t) == t.date * 1440 + t.hour * 60 + t.minute

\* lines 53-55: a naive time is taken as UTC; the instant in minutes
to_utc(t) == t.date * 1440 + t.hour * 60 + t.minute - (IF t.aware THEN t.off ELSE 0)

\* csv.DictReader: the value of column name in a row read under fieldnames,
\* dflt when fieldnames has no such column, None when the row is too short.
row_get(fieldnames, row, name, dflt) ==
    IF \E i \in 1..Len(fieldnames) : fieldnames[i] = Name(name)
    THEN LET i == CHOOSE j \in 1..Len(fieldnames) : fieldnames[j] = Name(name)
         IN  IF i <= Len(row) THEN row[i] ELSE None
    ELSE dflt

\* the row as a dictionary laid out along fieldnames, None where the row is
\* too short, the two risky fields sanitized (lines 59-62)
sanitized_row(fieldnames, row) ==
    [i \in 1..Len(fieldnames) |->
        IF fieldnames[i] \in {Name("traceroute_snip"), Name("speedtest_raw_json")}
        THEN sanitize_field(IF i <= Len(row) THEN row[i] ELSE None)
        ELSE IF i <= Len(row) THEN row[i] ELSE None]

\* lines 48-64: the rows kept, in order
RECURSIVE filter_rows(_, _, _)
filter_rows(fieldnames, rows, cutoff) ==
    IF rows = <<>> THEN <<>>
    ELSE LET r    == Head(rows)
             t    == parse_ts(row_get(fieldnames, r, "ts", Empty))
             rest == filter_rows(fieldnames, Tail(rows), cutoff)
         IN  IF t = None THEN rest
             ELSE IF to_utc(t) < cutoff THEN rest
             ELSE <<sanitized_row(fieldnames, r)>> \o rest

\* DictWriter(f, fieldnames, extrasaction="ignore").writerow(r)
write_dict(r) == [i \in 1..Len(r) |-> csv_cell(r[i])]

\* the locals of main(); next counts the rows written to the temporary file
\* and at is the name under which the file opened at line 68 is found
NoTEnv ==
    [src |-> 0, now |-> 0, fieldnames |-> <<>>, rows_out |-> <<>>, next |-> 0, at |-> ""]
NotPrinted == [msg |-> "", n |-> 0, src |-> 0]

\* the bytes of a file between its former end and a write beyond it
HoleRow == <<Name("hole")>>

\* A write of one row through a file object opened in mode "w", which
\* writes where its own earlier writes ended.  Offsets are counted in rows:
\* pos rows precede the write.  The row is added at the end of a file of
\* pos rows; it replaces a row of a longer file, and leaves a hole in a
\* shorter one (a file another process has emptied in between).
RECURSIVE write_at(_, _, _)
write_at(rows, pos, row) ==
    IF pos < Len(rows) THEN [rows EXCEPT ![pos + 1] = row]
    ELSE IF pos = Len(rows) THEN Append(rows, row)
    ELSE write_at(Append(rows, HoleRow), pos, row)

\* line 34: VIZ_DIR.mkdir(parents=True, exist_ok=True)
TMkdir ==
    /\ tpc = "mkdir"
    /\ vizdir' = TRUE
    /\ tpc' = "select"
    /\ UNCHANGED <<datadir, tick, tenv, viz, prev, printed, tpark,
                   collectorVars, pingVars, ensureVars>>

\* without the early return: an empty snapshot is published when there is
\* no dataset file
TSelect_publishing_empty(Nows) ==
    /\ tpc = "select"
    /\ IF newest_by_mtime(datadir) = {}
       THEN /\ tenv' = [tenv EXCEPT !.now = CHOOSE now \in Nows : TRUE]
            /\ tpc' = "opentmp"
       ELSE /\ \E src \in newest_by_mtime(datadir), now \in Nows :
                  tenv' = [tenv EXCEPT !.src = src, !.now = now]
            /\ tpc' = "read"
    /\ UNCHANGED <<datadir, tick, vizdir, viz, prev, printed, tpark,
                   collectorVars, pingVars, ensureVars>>

\* lines 36-42: src = newest_by_mtime(); return when there is none; now, cutoff
TSelect(Nows) ==
    /\ tpc = "select"
    /\ IF newest_by_mtime(datadir) = {}
       THEN /\ printed' = [msg |-> "No bakeoff_*.csv files found.", n |-> 0, src |-> 0]
            /\ tpc' = "done"
            /\ tenv' = tenv
       ELSE /\ \E src \in newest_by_mtime(datadir), now \in Nows :
                  tenv' = [tenv EXCEPT !.src = src, !.now = now]
            /\ tpc' = "read"
            /\ printed' = printed
    /\ UNCHANGED <<datadir, tick, vizdir, viz, prev, tpark, collectorVars, pingVars, ensureVars>>

\* lines 44-64: read the source file and keep the rows of the window
TRead ==
    /\ tpc = "read"
    /\ LET rows       == datadir[tenv.src].rows
           fieldnames == IF rows = <<>> THEN <<>> ELSE Head(rows)
       IN  tenv' = [tenv EXCEPT
                       !.fieldnames = fieldnames,
                       !.rows_out = IF rows = <<>> THEN <<>>
                                    ELSE filter_rows(fieldnames, Tail(rows),
                                                     tenv.now - WINDOW)]
    /\ tpc' = "opentmp"
    /\ UNCHANGED <<datadir, tick, vizdir, viz, prev, printed, tpark,
                   collectorVars, pingVars, ensureVars>>

\* line 68: tmp.open("w") creates the file or empties it
TOpenTmp ==
    /\ tpc = "opentmp"
    /\ viz' = [viz EXCEPT ![tmp_path] = [exists |-> TRUE, rows |-> <<>>]]
    /\ tenv' = [tenv EXCEPT !.next = 0, !.at = tmp_path]
    /\ tpc' = "write"
    /\ UNCHANGED <<datadir, tick, vizdir, prev, printed, tpark,
                   collectorVars, pingVars, ensureVars>>

\* lines 70-72: writeheader(), then writerow(r) for each kept row; what has
\* been written may reach the file at once
TWrite ==
    /\ tpc = "write"
    /\ IF tenv.next = 0
       THEN /\ viz' = [viz EXCEPT ![tenv.at].rows = write_at(@, 0, tenv.fieldnames)]
            /\ tenv' = [tenv EXCEPT !.next = 1]
            /\ tpc' = IF tenv.rows_out = <<>> THEN "close" ELSE "write"
       ELSE /\ viz' = [viz EXCEPT ![tenv.at].rows =
                                      write_at(@, tenv.next, write_dict(tenv.rows_out[tenv.next]))]
            /\ tenv' = [tenv EXCEPT !.next = tenv.next + 1]
            /\ tpc' = IF tenv.next = Len(tenv.rows_out) THEN "close" ELSE "write"
    /\ UNCHANGED <<datadir, tick, vizdir, prev, printed, tpark,
                   collectorVars, pingVars, ensureVars>>

\* leaving the with block of line 68 closes the temporary file
TClose ==
    /\ tpc = "close"
    /\ tpc' = "rename"
    /\ tenv' = [tenv EXCEPT !.at = ""]
    /\ UNCHANGED <<datadir, tick, vizdir, viz, prev, printed, tpark,
                   collectorVars, pingVars, ensureVars>>

\* line 73: tmp.replace(OUT).  The file keeps its content and whoever has it
\* open goes on writing to it under its new name; replace raises
\* FileNotFoundError when there is no temporary file.
TRename ==
    /\ tpc = "rename"
    /\ IF tmp_path = OUT
       THEN viz' = viz /\ tpc' = "print" /\ tpark' = tpark
       ELSE IF viz[tmp_path].exists
       THEN /\ viz' = [viz EXCEPT ![OUT] = viz[tmp_path], ![tmp_path] = NoFile]
            /\ tpark' = [tpark EXCEPT !.tenv.at = IF @ = tmp_path THEN OUT ELSE @]
            /\ tpc' = "print"
       ELSE viz' = viz /\ tpc' = "failed" /\ tpark' = tpark
    /\ UNCHANGED <<datadir, tick, tenv, vizdir, prev, printed, collectorVars, pingVars, ensureVars>>

\* line 75: print(f"Wrote {len(rows_out)} rows ...")
TPrint ==
    /\ tpc = "print"
    /\ printed' = [msg |-> "Wrote", n |-> Len(tenv.rows_out), src |-> tenv.src]
    /\ tpc' = "done"
    /\ UNCHANGED <<datadir, tick, tenv, vizdir, viz, prev, tpark,
                   collectorVars, pingVars, ensureVars>>

\* the process is killed
TKill ==
    /\ tpc \notin {"done", "killed", "failed"}
    /\ tpc' = "killed"
    /\ UNCHANGED <<datadir, tick, tenv, vizdir, viz, prev, printed, tpark,
                   collectorVars, pingVars, ensureVars>>

\* The locals of a run that is not running, and the scheduler passing from
\* one run to the other.
NoTPark == [tpc |-> "none", tenv |-> NoTEnv, printed |-> NotPrinted]

TSwitch ==
    /\ tpark # NoTPark
    /\ tpark' = [tpc |-> tpc, tenv |-> tenv, printed |-> printed]
    /\ tpc' = tpark.tpc
    /\ tenv' = tpark.tenv
    /\ printed' = tpark.printed
    /\ UNCHANGED <<datadir, tick, vizdir, viz, prev, collectorVars, pingVars, ensureVars>>

-----------------------------------------------------------------------------
(* Bounded inputs *)

SeqsUpTo(S, n) == UNION {[1..k -> S] : k \in 0..n}
Repeat(x, n) == [i \in 1..n |-> x]

\* ping: the times a reply line can carry, and the lines of one output
TimeVals  == {1, 2, 3}
PingLines == {NoMatch, BadNumber} \cup {Time(t) : t \in TimeVals}

\* every short output, and outputs of one repeated line up to MaxDup lines
\* more than PING_COUNT (ping prints a further time= line for a duplicate reply)
MaxPingLines == 3
MaxDup == 1
PingStdouts ==
    SeqsUpTo(PingLines, MaxPingLines)
        \cup {Repeat(l, n) : l \in PingLines, n \in (MaxPingLines + 1)..(PING_COUNT + MaxDup)}

PingOutcomes ==
    {Ran(rc, so) : rc \in {0, 2}, so \in PingStdouts} \cup {TimedOut, Missing}

\* the inputs of the collector runs
MainNows == {Clock(1, 0, 17, -420), Clock(1, 0, 15, -420), Clock(1, 0, 30, -420)}
MainEnvs == {<<>>}
MainPhaseFiles == {[exists |-> TRUE, text |-> <<"B", LF>>]}
MainPings ==
    {Ran(0, <<NoMatch, Time(1), Time(2)>>), Ran(2, <<NoMatch>>), TimedOut, Missing}
\* traceroute prints two hops, and may still exit nonzero
MainTraces ==
    {Ran(0, <<"a", LF, "b", LF>>), Ran(1, <<"a", LF, "b", LF>>), TimedOut, Missing}

FullPayload ==
    Payload(<<"{", LF, "}", LF>>, "object", Field(12500000), Field(2500000), Field(12340))
NoDownloadPayload ==
    Payload(<<"{", "}">>, "object", Absent, Field(2500000), Field(12340))
MainSpeedOutcomes ==
    {Ran(0, FullPayload), Ran(0, NoDownloadPayload),
     Ran(0, Payload(<<"x">>, "invalid", Absent, Absent, Absent)),
     Ran(1, Payload(<<>>, "invalid", Absent, Absent, Absent)), TimedOut}

\* the rows an earlier, complete invocation left in the day file
EarlierEnv == [NoEnv EXCEPT !.phase = UNKNOWN, !.now = Clock(1, 0, 16, -420),
                            !.ts = Ts(Clock(1, 0, 16, -420)), !.dayfile = 1]
EarlierRow(i) ==
    writerow(make_row(EarlierEnv, TARGETS[i], Empty, ping_stats(<<1, 2>>, PING_COUNT)))
EarlierBatch == [i \in 1..Len(TARGETS) |-> EarlierRow(i)]

Dates == {1, 2}

-----------------------------------------------------------------------------
(* Specifications *)

QuantileIdle == qin = <<>> /\ qout = [called |-> FALSE, p50 |-> None, p95 |-> None]
PingIdle ==
    /\ pin = TimedOut /\ pout = [raised |-> FALSE, result |-> None, called |-> FALSE]
    /\ QuantileIdle
EnsureIdle == epath = AbsentFile /\ e0 = AbsentFile /\ ecalls = 0
TransformIdle ==
    /\ tpc = "mkdir" /\ tenv = NoTEnv /\ vizdir = FALSE
    /\ viz = EmptyViz /\ prev = EmptyViz /\ printed = NotPrinted /\ tpark = NoTPark
CollectorIdle ==
    /\ cpc = "idle" /\ inv = 0 /\ cenv = NoEnv /\ chost = 0 /\ cbuf = <<>> /\ ptrace = <<>>
    /\ dir0 = datadir /\ cpark = NoPark

\* The collector, run MaxInvocations times on a data directory that is
\* empty or holds the day file of an earlier invocation.
EmptyDir == [d \in Dates |-> AbsentFile]
EarlierDir == [EmptyDir EXCEPT ![1] = File(<<HeaderRow>> \o EarlierBatch, 1)]

Init ==
    /\ \/ datadir = EmptyDir /\ tick = 1
       \/ datadir = EarlierDir /\ tick = 2
    /\ CollectorIdle /\ PingIdle /\ EnsureIdle /\ TransformIdle

Next ==
    \/ CStart(MainNows, MainEnvs, MainPhaseFiles)
    \/ CEnsure
    \/ CEnsureOpen
    \/ CEnsureHeader
    \/ CSpeedtest(BOOLEAN, MainSpeedOutcomes)
    \/ COpen
    \/ CTarget(MainTraces, MainPings)
    \/ CFlush
    \/ CClose

Spec == Init /\ [][Next]_vars

-----------------------------------------------------------------------------
(* The collector: properties *)

IsPrefix(a, b) == Len(a) <= Len(b) /\ SubSeq(b, 1, Len(a)) = a

\* the rows this invocation has added to its day file
Appended == 
    LET old == dir0[cenv.dayfile].rows
        new == datadir[cenv.dayfile].rows
        skip == IF dir0[cenv.dayfile].exists THEN Len(old) ELSE 1
    IN  SubSeq(new, skip + 1, Len(new))

\* the position of a column of FIELDNAMES in a row
ColumnOf(name) == CHOOSE i \in 1..Len(FIELDNAMES) : FIELDNAMES[i] = name

\* C1: every invocation runs to completion and appends exactly one row per
\* target, in target order, whatever the external tools do (success, nonzero
\* exit, timeout, tool missing): no invocation ends by an exception and none
\* leaves fewer rows than targets.
C1_OneRowPerTargetAlways ==
    /\ cpc # "failed"
    /\ cpc \in {"done", "failed"} =>
          /\ Len(Appended) = Len(TARGETS)
          /\ \A i \in 1..Len(TARGETS) : Appended[i][ColumnOf("host")] = Name(TARGETS[i])

\* C3: the dataset files are append-only: each step of a collector invocation
\* leaves every existing file in place with its former rows as a prefix of
\* its rows.
C3_AppendOnly ==
    [][\A d \in Dates :
          datadir[d].exists =>
              /\ datadir'[d].exists
              /\ IsPrefix(datadir[d].rows, datadir'[d].rows)]_vars

\* an invocation has appended its rows to a day file that already held rows
C3_Witness ==
    /\ cpc = "done"
    /\ dir0[1].exists
    /\ Len(dir0[1].rows) > 1
    /\ Len(datadir[1].rows) = Len(dir0[1].rows) + Len(TARGETS)

BandwidthCols ==
    {ColumnOf(n) : n \in {"speedtest_down_mbps", "speedtest_up_mbps",
                          "speedtest_ping_ms", "speedtest_raw_json"}}

AllOrNothing(cells) == (\A c \in cells : c = Empty) \/ (\A c \in cells : c # Empty)

\* C7: the bandwidth adapter returns no result or a result with download,
\* upload and ping all populated, so the bandwidth fields of every written
\* row are all empty or all populated.
C7_BandwidthAllOrNothing ==
    /\ cenv.st # None =>
          None \notin {cenv.st.v.down_mbps, cenv.st.v.up_mbps, cenv.st.v.ping_ms}
    /\ \A d \in Dates : \A i \in 2..Len(datadir[d].rows) :
          AllOrNothing({datadir[d].rows[i][c] : c \in BandwidthCols})

\* the rows this invocation has written: those in its day file and those
\* still in the file object
Written == IF cpc \in {"loop", "done", "failed"} THEN Appended \o cbuf ELSE <<>>

SpeedtestRuns == Cardinality({i \in 1..Len(ptrace) : ptrace[i] = Probe("speedtest", 0)})

\* C15: within one invocation the bandwidth probe is run at most once, once
\* when the minute of the day is a multiple of SPEEDTEST_EVERY_MIN and the
\* invocation has come to its loop, and not at all at another minute; the
\* rows the invocation has written carry the same cell in each of the four
\* bandwidth columns, and the empty cell there at a minute that is no
\* multiple of SPEEDTEST_EVERY_MIN.
C15_BandwidthOnceAndShared ==
    /\ SpeedtestRuns <= 1
    /\ cpc \in {"open", "loop", "done"} =>
          SpeedtestRuns = (IF minute_bucket(cenv.now) % SPEEDTEST_EVERY_MIN = 0 THEN 1 ELSE 0)
    /\ SpeedtestRuns = 1 => minute_bucket(cenv.now) % SPEEDTEST_EVERY_MIN = 0
    /\ \A c \in BandwidthCols :
          /\ \A i, j \in 1..Len(Written) : Written[i][c] = Written[j][c]
          /\ minute_bucket(cenv.now) % SPEEDTEST_EVERY_MIN # 0 =>
                 \A i \in 1..Len(Written) : Written[i][c] = Empty

\* the invocation at minute 30 is done: one bandwidth probe, and its result
\* in the rows of all targets
C15_Witness ==
    /\ cpc = "done"
    /\ minute_bucket(cenv.now) = SPEEDTEST_EVERY_MIN
    /\ SpeedtestRuns = 1
    /\ Len(Written) = Len(TARGETS)
    /\ \A i \in 1..Len(Written) :
          Written[i][ColumnOf("speedtest_down_mbps")] = Num(10000)

-----------------------------------------------------------------------------
(* The cadence: one collector invocation at each minute of the day *)

DayNows == {Clock(1, h, m, -420) : h \in 0..23, m \in 0..59}
CadencePings == {Ran(0, <<Time(1)>>), TimedOut}
CadenceTraces == {Ran(0, <<"a">>), TimedOut}
CadenceSpeedOutcomes == {Ran(0, FullPayload), TimedOut}

\* one invocation, the last of the MaxInvocations
InitCadence ==
    /\ datadir = EmptyDir /\ tick = 1
    /\ cpc = "idle" /\ inv = MaxInvocations - 1 /\ cenv = NoEnv /\ chost = 0
    /\ cbuf = <<>> /\ ptrace = <<>> /\ dir0 = datadir /\ cpark = NoPark
    /\ PingIdle /\ EnsureIdle /\ TransformIdle

NextCadence ==
    \/ CStart(DayNows, MainEnvs, MainPhaseFiles)
    \/ CEnsure
    \/ CEnsureOpen
    \/ CEnsureHeader
    \/ CSpeedtest({TRUE}, CadenceSpeedOutcomes)
    \/ COpen
    \/ CTarget(CadenceTraces, CadencePings)
    \/ CFlush
    \/ CClose

SpecCadence == InitCadence /\ [][NextCadence]_vars

\* the minute of the day of the running invocation
MinuteOfDay == cenv.now.hour * 60 + cenv.now.minute

Ran_(p, h) == \E i \in 1..Len(ptrace) : ptrace[i] = Probe(p, h)

\* the targets whose loop iteration is over
Probed == IF cpc \in {"loop", "done", "failed"} THEN 1..(chost - 1) ELSE {}

\* C8: at every minute of the day m the invocation runs the route probe iff
\* m mod 15 = 0, the bandwidth probe iff m mod 30 = 0, and the latency probe
\* for every target whatever m is: the decisions taken at line 170-171 are
\* these, the bandwidth adapter is called exactly on a bandwidth cycle, no
\* route probe runs off a route cycle, and every target the loop has dealt
\* with had its latency probe and, exactly on a route cycle, its route probe;
\* an invocation that is done has dealt with every target.
C8_Cadence ==
    /\ cpc \in {"speedtest", "open", "loop", "done", "failed"} =>
          /\ cenv.bucket = MinuteOfDay
          /\ cenv.do_tr = (MinuteOfDay % 15 = 0)
          /\ cenv.do_st = (MinuteOfDay % 30 = 0)
    /\ cpc \in {"open", "loop", "done"} => (Ran_("speedtest", 0) <=> MinuteOfDay % 30 = 0)
    /\ Ran_("speedtest", 0) => MinuteOfDay % 30 = 0
    /\ \A h \in 1..Len(TARGETS) : Ran_("traceroute", h) => MinuteOfDay % 15 = 0
    /\ \A h \in Probed :
          /\ Ran_("ping", h)
          /\ Ran_("traceroute", h) <=> MinuteOfDay % 15 = 0
    /\ cpc = "done" => Probed = 1..Len(TARGETS)

\* the invocation at minute 30 has run the bandwidth probe and, for every
\* target, the route and the latency probe
C8_Witness ==
    /\ cpc = "done"
    /\ MinuteOfDay = 30
    /\ Ran_("speedtest", 0)
    /\ \A h \in 1..Len(TARGETS) : Ran_("traceroute", h) /\ Ran_("ping", h)

-----------------------------------------------------------------------------
(* The phase label: one collector invocation under every bounded PHASE and *)
(* phase file                                                              *)

PhaseNows == {Clock(1, 0, 17, -420)}
PhaseEnvs == {<<>>, <<SP>>, <<"A">>, <<SP, "A", LF>>}
PhaseFiles ==
    {[exists |-> FALSE, text |-> <<>>]}
        \cup {[exists |-> TRUE, text |-> t] :
                 t \in {<<>>, <<SP, LF>>, <<"B", LF>>, <<TAB, "B", SP, "C", LF>>}}
PhasePings == {Ran(0, <<Time(1)>>), TimedOut}

InitPhase == InitCadence

NextPhase ==
    \/ CStart(PhaseNows, PhaseEnvs, PhaseFiles)
    \/ CEnsure
    \/ CEnsureOpen
    \/ CEnsureHeader
    \/ CSpeedtest({TRUE}, CadenceSpeedOutcomes)
    \/ COpen
    \/ CTarget(CadenceTraces, PhasePings)
    \/ CFlush
    \/ CClose

SpecPhase == InitPhase /\ [][NextPhase]_vars

Blank(s) == \A i \in 1..Len(s) : IsSpace(s[i])

\* t is s without its leading and trailing white space
IsTrimOf(t, s) ==
    \E i \in 1..(Len(s) + 1) : \E j \in 0..Len(s) :
        /\ t = SubSeq(s, i, j)
        /\ \A k \in 1..(i - 1) : IsSpace(s[k])
        /\ \A k \in (j + 1)..Len(s) : IsSpace(s[k])
        /\ t # <<>> => ~IsSpace(t[1]) /\ ~IsSpace(t[Len(t)])

\* C16: the phase label of an invocation is the trimmed value of PHASE when
\* that value is not blank, whatever the phase file holds; else the trimmed
\* content of the phase file when the file exists and is not blank; else
\* UNKNOWN; and every row the invocation writes carries that label.
C16_PhasePriority ==
    cpc # "idle" =>
        /\ ~Blank(cenv.env_phase) => IsTrimOf(cenv.phase, cenv.env_phase)
        /\ Blank(cenv.env_phase) /\ cenv.phase_file.exists /\ ~Blank(cenv.phase_file.text) =>
              IsTrimOf(cenv.phase, cenv.phase_file.text)
        /\ Blank(cenv.env_phase) /\ (~cenv.phase_file.exists \/ Blank(cenv.phase_file.text)) =>
              cenv.phase = UNKNOWN
        /\ \A i \in 1..Len(Written) : Written[i][ColumnOf("phase_label")] = Str(cenv.phase)

\* PHASE is " A\n" and the phase file holds "B\n": the rows of all targets
\* carry A
C16_Witness ==
    /\ cpc = "done"
    /\ cenv.env_phase = <<SP, "A", LF>>
    /\ cenv.phase_file = [exists |-> TRUE, text |-> <<"B", LF>>]
    /\ Len(Written) = Len(TARGETS)
    /\ \A i \in 1..Len(Written) : Written[i][ColumnOf("phase_label")] = Str(<<"A">>)

-----------------------------------------------------------------------------
(* ping_target on every bounded output of the ping process *)

InitPing ==
    /\ pin \in PingOutcomes
    /\ pout = [raised |-> FALSE, result |-> None, called |-> FALSE]
    /\ QuantileIdle
    /\ datadir = EmptyDir /\ tick = 1
    /\ CollectorIdle /\ EnsureIdle /\ TransformIdle

\* line 188: ping_target(host, PING_COUNT)
PingCall ==
    /\ ~pout.called
    /\ pout' = [raised |-> ping_target(pin, PING_COUNT).raised,
                result |-> ping_target(pin, PING_COUNT).result,
                called |-> TRUE]
    /\ UNCHANGED <<pin, qin, qout, datadir, tick, collectorVars, ensureVars, transformVars>>

NextPing == PingCall

SpecPing == InitPing /\ [][NextPing]_vars

PingReturned == pout.called /\ ~pout.raised

\* C5: in every record, whatever the ping tool prints, received <= sent and
\* 0 <= loss_pct <= 100 (loss_pct counts 1/100 of a percent).
C5_ReceivedAndLossInRange ==
    PingReturned =>
        /\ pout.result.received.v <= pout.result.sent.v
        /\ 0 <= pout.result.loss_pct.v
        /\ pout.result.loss_pct.v <= 100 * 100

\* C6: with zero samples avg, p50, p95, max and jitter are all empty in the
\* record; with exactly one sample jitter is exactly 0.
C6_NoSamplesAllEmpty ==
    PingReturned =>
        /\ pout.result.received.v = 0 =>
              \A f \in {"avg_ms", "p50_ms", "p95_ms", "max_ms", "jitter_ms"} :
                  csv_cell(pout.result[f]) = Empty
        /\ pout.result.received.v = 1 => pout.result.jitter_ms = Num(0)

-----------------------------------------------------------------------------
(* quantile on every bounded sequence of samples *)

MaxSamples == 3

\* the samples: floats of full precision between 1.25 and 1.34 (ping times
\* such as 1.305 ms), and the whole numbers 10, 20 and 30
SampleMants == {Pow2(FloatBits - 1) + Pow2(FloatBits - 3) + k : k \in 0..11}
Samples == {[m |-> m, e |-> 1 - FloatBits] : m \in SampleMants}
QuantileInputs ==
    (SeqsUpTo(Samples, MaxSamples) \ {<<>>})
        \cup {<<float_of_int(10), float_of_int(20), float_of_int(30)>>,
              <<float_of_int(10), float_of_int(20)>>,
              <<float_of_int(30), float_of_int(10), float_of_int(20)>>}

InitQuantile ==
    /\ qin \in QuantileInputs
    /\ qout = [called |-> FALSE, p50 |-> None, p95 |-> None]
    /\ pin = TimedOut /\ pout = [raised |-> FALSE, result |-> None, called |-> FALSE]
    /\ datadir = EmptyDir /\ tick = 1
    /\ CollectorIdle /\ EnsureIdle /\ TransformIdle

\* lines 90-91: quantile(times, 0.50) and quantile(times, 0.95)
QuantileCall ==
    /\ ~qout.called
    /\ qout' = [called |-> TRUE,
                p50    |-> quantile_float(qin, float_of_ratio(50, 100)),
                p95    |-> quantile_float(qin, float_of_ratio(95, 100))]
    /\ UNCHANGED <<qin, pin, pout, datadir, tick, collectorVars, ensureVars, transformVars>>

NextQuantile == QuantileCall

SpecQuantile == InitQuantile /\ [][NextQuantile]_vars

\* a float as a whole number of units of 2^-(FloatBits + 2)
Fixed(a) == a.m * Pow2(a.e + FloatBits + 2)
FixedSeq(s) == [i \in 1..Len(s) |-> Fixed(s[i])]

Abs(x) == IF x < 0 THEN -x ELSE x

QuantileExamples ==
    /\ Len(qin) = 1 => qout.p50 = qin[1] /\ qout.p95 = qin[1]
    /\ qin = <<float_of_int(10), float_of_int(20), float_of_int(30)>> =>
          qout.p50 = float_of_int(20)
    /\ qin = <<float_of_int(30), float_of_int(10), float_of_int(20)>> =>
          qout.p50 = float_of_int(20)
    /\ qin = <<float_of_int(10), float_of_int(20)>> => qout.p50 = float_of_int(15)

\* C14 as stated: quantile returns the single value when n = 1, 20 for
\* q = 0.5 on [10, 20, 30], 15 for q = 0.5 on [10, 20], and for every
\* non-empty input min <= quantile(0.5) <= quantile(0.95) <= max.
C14_QuantileOrdered ==
    qout.called =>
        /\ QuantileExamples
        /\ fle(sorted_floats(qin)[1], qout.p50)
        /\ fle(qout.p50, qout.p95)
        /\ fle(qout.p95, sorted_floats(qin)[Len(qin)])

\* C14, amended: quantile returns the single value when n = 1, 20 for
\* q = 0.5 on [10, 20, 30], 15 for q = 0.5 on [10, 20]; for every non-empty
\* input min <= quantile(0.5) <= max; quantile(0.5) is the float nearest to
\* the value interpolated at the real index (n - 1) * 0.5 and quantile(0.95)
\* is within (2n + 1) * 2^-FloatBits * max of the value interpolated at the
\* real index (n - 1) * 0.95; and these exact interpolated values satisfy
\* min <= at 0.5 <= at 0.95 <= max.
C14_QuantileInterpolates ==
    qout.called =>
        LET n   == Len(qin)
            v   == sorted(FixedSeq(qin))
            x50 == quantile(FixedSeq(qin), 50).v
            x95 == quantile(FixedSeq(qin), 95).v
        IN  /\ QuantileExamples
            /\ fle(sorted_floats(qin)[1], qout.p50)
            /\ fle(qout.p50, sorted_floats(qin)[n])
            /\ Abs(100 * Fixed(qout.p50) - x50) * Pow2(FloatBits) <= 100 * v[n]
            /\ Abs(100 * Fixed(qout.p95) - x95) * Pow2(FloatBits) <= 100 * (2 * n + 1) * v[n]
            /\ 100 * v[1] <= x50 /\ x50 <= x95 /\ x95 <= 100 * v[n]

\* quantile has interpolated between two different samples, with a result
\* for q = 0.95 that is no sample
C14_Witness ==
    /\ qout.called
    /\ Len(qin) = 2
    /\ qin[1] # qin[2]
    /\ qout.p95 \notin {qin[1], qin[2]}
    /\ fle(qout.p50, qout.p95)

-----------------------------------------------------------------------------
(* ensure_csv called again and again on one path *)

MaxEnsureCalls == 3
MaxEarlierRows == 2

EnsureFiles ==
    {AbsentFile}
        \cup {File(<<HeaderRow>> \o rows, t) :
                 rows \in SeqsUpTo({EarlierRow(i) : i \in 1..Len(TARGETS)}, MaxEarlierRows),
                 t \in 1..2}

InitEnsure ==
    /\ epath \in EnsureFiles
    /\ e0 = epath
    /\ ecalls = 0
    /\ tick = 3
    /\ datadir = EmptyDir
    /\ CollectorIdle /\ PingIdle /\ TransformIdle

\* line 167: ensure_csv(dayfile)
EnsureCall ==
    /\ ecalls < MaxEnsureCalls
    /\ epath' = ensure_csv(epath, tick + ecalls)
    /\ ecalls' = ecalls + 1
    /\ UNCHANGED <<e0, datadir, tick, collectorVars, pingVars, transformVars>>

NextEnsure == EnsureCall

SpecEnsure == InitEnsure /\ [][NextEnsure]_vars

\* C4: ensure_csv is idempotent: after any number of calls with no append in
\* between, a path that held no file holds exactly the header row and no
\* data row, the file being the one the first call wrote, and a path that
\* held a file holds that file unchanged.
C4_EnsureIdempotent ==
    ecalls >= 1 =>
        /\ e0.exists => epath = e0
        /\ ~e0.exists => epath = File(<<HeaderRow>>, tick)

\* ensure_csv has been called twice on a path that held no file
C4_Witness ==
    /\ ecalls >= 2
    /\ ~e0.exists
    /\ epath.rows = <<HeaderRow>>

-----------------------------------------------------------------------------
(* The transform, run once on a bounded data directory *)

MaxRows == 3

\* the clock of the transform: day 2, 10:00 UTC, and a minute later
TNow == 2 * 1440 + 600
TNows == {TNow, TNow + 1}

RowAt(ts) == [EarlierRow(1) EXCEPT ![ColumnOf("ts")] = ts]
DirtyRow ==
    [RowAt(Ts(Clock(2, 3, 0, -420))) EXCEPT
        ![ColumnOf("traceroute_snip")] = Str(<<"a", LF, "b", TAB>>),
        ![ColumnOf("speedtest_raw_json")] = Str(<<"{", LF, TAB, "}">>)]

RowNow     == RowAt(Ts(Clock(2, 3, 0, -420)))      \* TNow
Row23h     == RowAt(Ts(Clock(1, 4, 0, -420)))      \* TNow - 23 h
Row25h     == RowAt(Ts(Clock(1, 2, 0, -420)))      \* TNow - 25 h
RowCutoff  == RowAt(Ts(Clock(1, 3, 0, -420)))      \* TNow - 24 h
RowNaive   == RowAt(Ts(NaiveClock(1, 3, 0)))       \* no zone: TNow - 31 h as UTC
RowBadTs   == RowAt(Str(<<"x">>))

SourceRows == {RowNow, Row23h, Row25h, RowCutoff, RowNaive, RowBadTs, DirtyRow}

\* no dataset file, one, or two of which either may be the newer, or both
\* of one modification time
SourceDirs ==
    {EmptyDir}
        \cup {[EmptyDir EXCEPT ![1] = File(<<HeaderRow>> \o rows, 2)] :
                 rows \in SeqsUpTo(SourceRows, MaxRows)}
        \cup {[EmptyDir EXCEPT ![1] = File(<<HeaderRow, RowNow, Row25h>>, 2),
                               ![2] = File(<<HeaderRow, Row23h>>, t)] : t \in {1, 2, 3}}

\* the snapshot directory: nothing published yet or an earlier snapshot,
\* and possibly the temporary file a killed run left behind
EarlierSnapshot == [exists |-> TRUE, rows |-> <<HeaderRow, Row25h>>]
VizStates ==
    {EmptyViz,
     [EmptyViz EXCEPT ![OUT] = EarlierSnapshot],
     [EmptyViz EXCEPT ![OUT] = EarlierSnapshot,
                      !["latest.csv.tmp"] = [exists |-> TRUE, rows |-> <<HeaderRow>>]]}

InitTransform ==
    /\ datadir \in SourceDirs
    /\ tick = 4
    /\ viz \in VizStates
    /\ prev = viz
    /\ vizdir = (viz # EmptyViz)
    /\ tpc = "mkdir" /\ tenv = NoTEnv /\ printed = NotPrinted /\ tpark = NoTPark
    /\ CollectorIdle /\ PingIdle /\ EnsureIdle

NextTransform ==
    \/ TMkdir
    \/ TSelect(TNows)
    \/ TRead
    \/ TOpenTmp
    \/ TWrite
    \/ TClose
    \/ TRename
    \/ TPrint
    \/ TKill

SpecTransform == InitTransform /\ [][NextTransform]_vars

\* the snapshot this run publishes: the header and every kept row
CompleteNew ==
    [exists |-> TRUE,
     rows   |-> <<tenv.fieldnames>>
                    \o [k \in 1..Len(tenv.rows_out) |-> write_dict(tenv.rows_out[k])]]

\* C2: at every step of a transform run, also when the process is killed at
\* any point, the snapshot path holds the complete snapshot published before
\* the run or the complete snapshot of this run, never a part of one.
C2_SnapshotAtomic ==
    \/ viz[OUT] = prev[OUT]
    \/ tpc \in {"print", "done", "killed"} /\ viz[OUT] = CompleteNew

\* the run was killed with the temporary file written in full and not yet
\* renamed: the earlier snapshot is still the published one
C2_Witness ==
    /\ tpc = "killed"
    /\ prev[OUT].exists
    /\ viz[OUT] = prev[OUT]
    /\ tenv.rows_out # <<>>
    /\ viz["latest.csv.tmp"] = CompleteNew

\* the instant of a timestamp cell, a naive one taken as UTC
InstantOf(c) ==
    c.v.date * 1440 + c.v.hour * 60 + c.v.minute - (IF c.v.aware THEN c.v.off ELSE 0)

\* the rows of the source file whose timestamp parses and is not before
\* now - 24 h
InWindow(r) == r[ColumnOf("ts")].k = "ts" /\ InstantOf(r[ColumnOf("ts")]) >= tenv.now - 24 * 60
KeptOfSource == SelectSeq(Tail(datadir[tenv.src].rows), InWindow)

PlainCols ==
    {c \in 1..Len(FIELDNAMES) : FIELDNAMES[c] \notin {"traceroute_snip", "speedtest_raw_json"}}

\* C9: the rows of the snapshot are the rows of the source file, in source
\* order, whose timestamp parses and is not strictly before now - 24 h (a
\* row at the cutoff is kept, one with a malformed timestamp is dropped
\* alone); the count reported is the number of rows written; from rows
\* timestamped now, now - 23 h and now - 25 h the first two are written.
C9_WindowRows ==
    (tpc = "done" /\ printed.msg = "Wrote") =>
        LET written == Tail(viz[OUT].rows)
        IN  /\ Head(viz[OUT].rows) = Head(datadir[tenv.src].rows)
            /\ Len(written) = Len(KeptOfSource)
            /\ \A k \in 1..Len(written) : \A c \in PlainCols :
                  written[k][c] = KeptOfSource[k][c]
            /\ printed.n = Len(written)
            /\ (tenv.now = TNow /\ datadir[tenv.src].rows = <<HeaderRow, RowNow, Row23h, Row25h>>)
                  => written = <<RowNow, Row23h>>

\* the run on rows timestamped now, now - 23 h and now - 25 h is done
C9_Witness ==
    /\ tpc = "done"
    /\ tenv.now = TNow
    /\ tenv.src = 1
    /\ datadir[1].rows = <<HeaderRow, RowNow, Row23h, Row25h>>
    /\ Len(viz[OUT].rows) = 3

NoDataset == \A d \in Dates : ~datadir[d].exists

\* C10: with no dataset file in the data directory the transform ends
\* without an error and writes nothing: neither the snapshot nor the
\* temporary file is created or changed, at any step, and the run goes on
\* to its end unless it is killed.
C10_NoDatasetWritesNothing ==
    NoDataset =>
        /\ viz = prev
        /\ tpc \in {"mkdir", "select", "done", "killed"}
        /\ tpc = "done" => printed.msg = "No bakeoff_*.csv files found."
        /\ tpc \in {"mkdir", "select"} => ENABLED (TMkdir \/ TSelect(TNows))

\* the run on an empty data directory is done, the earlier snapshot in place
C10_Witness ==
    /\ NoDataset
    /\ tpc = "done"
    /\ prev[OUT].exists
    /\ viz = prev

-----------------------------------------------------------------------------
(* The transform: which file is read *)

\* the timestamp cells of the data rows of a file
TsCells(rows) == {rows[i][ColumnOf("ts")] : i \in 2..Len(rows)}

\* the snapshot this run has published
Published == tpc \in {"print", "done"} /\ viz[OUT].exists

\* C11: with several dataset files the transform reads one file, a file of
\* the greatest modification time, whatever the file names are: src is such
\* a file from its selection on; the rows kept are rows of that file; every
\* row of the published snapshot carries the timestamp of a row of that
\* file, and no row of another file that is not also in that file appears
\* in the snapshot, in the window or not.
C11_NewestByMtimeOnly ==
    tpc \in {"read", "opentmp", "write", "close", "rename", "print"}
        \/ (tpc = "done" /\ printed.msg = "Wrote")
    => /\ datadir[tenv.src].exists
       /\ \A d \in Dates : datadir[d].exists => datadir[d].mtime <= datadir[tenv.src].mtime
       /\ \A k \in 1..Len(tenv.rows_out) :
              tenv.rows_out[k][ColumnOf("ts")] \in TsCells(datadir[tenv.src].rows)
       /\ Published =>
              /\ TsCells(viz[OUT].rows) \subseteq TsCells(datadir[tenv.src].rows)
              /\ \A d \in Dates \ {tenv.src} :
                     \A c \in TsCells(datadir[d].rows) \ TsCells(datadir[tenv.src].rows) :
                         c \notin TsCells(viz[OUT].rows)

\* two dataset files, the one with the smaller name modified last: the run
\* has published the window of that file, and the row of the other file,
\* 23 hours old, is not in the snapshot
C11_Witness ==
    /\ tpc = "done"
    /\ datadir[1].exists /\ datadir[2].exists
    /\ datadir[2].mtime < datadir[1].mtime
    /\ tenv.src = 1
    /\ tenv.now = TNow
    /\ viz[OUT].rows = <<HeaderRow, RowNow>>
    /\ Row23h \in {datadir[2].rows[i] : i \in 1..Len(datadir[2].rows)}

-----------------------------------------------------------------------------
(* The collector and the transform running side by side: one invocation of *)
(* the collector and one run of the transform, their steps interleaved in  *)
(* every way                                                               *)

\* the collector runs on day 2 at 03:00 -07:00, a route and bandwidth cycle
\* at the instant TNow, or at 02:47
PipeNows == {Clock(2, 3, 0, -420), Clock(2, 2, 47, -420)}
\* traceroute prints a tab and two lines
PipeTraces == {Ran(0, <<"a", TAB, "b", LF, "c", LF>>)}
PipePings == {Ran(0, <<Time(1)>>)}
PipeSpeedOutcomes == {Ran(0, FullPayload)}

\* the data directory: empty, or the day file with a row of any content,
\* or the file of the day before
PipeDirs ==
    {EmptyDir,
     [EmptyDir EXCEPT ![2] = File(<<HeaderRow, DirtyRow>>, 1)],
     [EmptyDir EXCEPT ![1] = File(<<HeaderRow, RowNow>>, 1)]}

InitPipeline ==
    /\ datadir \in PipeDirs
    /\ tick = 2
    /\ cpc = "idle" /\ inv = MaxInvocations - 1 /\ cenv = NoEnv /\ chost = 0
    /\ cbuf = <<>> /\ ptrace = <<>> /\ dir0 = datadir /\ cpark = NoPark
    /\ PingIdle /\ EnsureIdle /\ TransformIdle

NextPipeline ==
    \/ CStart(PipeNows, MainEnvs, MainPhaseFiles)
    \/ CEnsure
    \/ CEnsureOpen
    \/ CEnsureHeader
    \/ CSpeedtest({TRUE}, PipeSpeedOutcomes)
    \/ COpen
    \/ CTarget(PipeTraces, PipePings)
    \/ CFlush
    \/ CClose
    \/ TMkdir
    \/ TSelect(TNows)
    \/ TRead
    \/ TOpenTmp
    \/ TWrite
    \/ TClose
    \/ TRename
    \/ TPrint

SpecPipeline == InitPipeline /\ [][NextPipeline]_vars

HasChar(cell, c) == cell.k = "str" /\ \E i \in 1..Len(cell.v) : cell.v[i] = c

RiskyCols == {ColumnOf("traceroute_snip"), ColumnOf("speedtest_raw_json")}

\* the data rows of the files of the snapshot directory
SnapshotRows ==
    UNION {{viz[n].rows[i] : i \in 2..Len(viz[n].rows)} : n \in VizNames}

\* the rows of the dataset files
DatasetRows ==
    UNION {{datadir[d].rows[i] : i \in 1..Len(datadir[d].rows)} : d \in Dates}

\* C12: the route snippet of every row the collector writes holds no line
\* break; in every row of the snapshot, and of the temporary file, the route
\* snippet and the raw bandwidth payload hold no line break and no tab,
\* whatever these fields hold in the dataset; and every snapshot row has
\* the 16 columns of the dataset, the other 14 with the cells of a dataset
\* row of 16 columns, each in its column.
C12_SingleLineFields ==
    /\ \A i \in 1..Len(Written) : ~HasChar(Written[i][ColumnOf("traceroute_snip")], LF)
    /\ \A r \in SnapshotRows :
          /\ \A c \in RiskyCols : ~HasChar(r[c], LF) /\ ~HasChar(r[c], TAB)
          /\ Len(r) = Len(FIELDNAMES)
          /\ \E d \in DatasetRows :
                 /\ Len(d) = Len(r)
                 /\ \A c \in PlainCols : r[c] = d[c]
    /\ \A n \in VizNames : Len(viz[n].rows) >= 1 => viz[n].rows[1] \in {HeaderRow, <<>>}

\* the snapshot holds the row the dataset had, its line breaks and tabs
\* gone, and the rows of the collector, written with a tab in the route
\* snippet and a line break in the payload
C12_Witness ==
    /\ tpc = "done" /\ cpc = "done"
    /\ Len(viz[OUT].rows) = 2 + Len(TARGETS)
    /\ viz[OUT].rows[2][ColumnOf("traceroute_snip")] = Str(<<"a", SP, BAR, SP, "b">>)
    /\ HasChar(datadir[2].rows[2][ColumnOf("traceroute_snip")], LF)
    /\ HasChar(datadir[2].rows[3][ColumnOf("traceroute_snip")], TAB)
    /\ HasChar(datadir[2].rows[3][ColumnOf("speedtest_raw_json")], LF)
    /\ viz[OUT].rows[3][ColumnOf("traceroute_snip")] = Str(<<"a", SP, "b", SP, BAR, SP, "c">>)
    /\ viz[OUT].rows[3][ColumnOf("speedtest_raw_json")] = Str(<<"{", SP, BAR, SP, "}">>)

\* the rows of the first n rows of the source file that are in the window
KeptOfFirst(n) == SelectSeq(SubSeq(datadir[tenv.src].rows, 2, n), InWindow)

\* the rows the source file held when the collector invocation started
RowsAtStart == IF cpc = "idle" THEN Len(datadir[tenv.src].rows) ELSE Len(dir0[tenv.src].rows)

\* C13: with a collector invocation appending to the dataset file while the
\* transform runs, no step of the transform changes a dataset file; every
\* row of a dataset file is, at every moment, a whole row of 16 fields (or
\* the header); and the rows the transform has kept are the rows in the
\* window among the first n rows of the source file, for an n between the
\* number of rows before the invocation and the number of rows now.
C13_ReadsWholeRows ==
    /\ [][(tpc' # tpc \/ tenv' # tenv \/ viz' # viz) => datadir' = datadir]_vars
    /\ [](/\ \A d \in DatasetRows : Len(d) = Len(FIELDNAMES)
          /\ tpc \in {"opentmp", "write", "close", "rename", "print"}
                 \/ (tpc = "done" /\ printed.msg = "Wrote")
             => \E n \in Min(RowsAtStart, Len(datadir[tenv.src].rows))..Len(datadir[tenv.src].rows) :
                    /\ Len(tenv.rows_out) = Len(KeptOfFirst(n))
                    /\ \A k \in 1..Len(tenv.rows_out) : \A c \in PlainCols :
                           tenv.rows_out[k][c] = KeptOfFirst(n)[k][c])

\* the transform has read the day file between two appends of the
\* invocation: its snapshot holds one of the three rows
C13_Witness ==
    /\ tpc = "done" /\ cpc = "done"
    /\ tenv.src = 2
    /\ ~dir0[2].exists
    /\ Len(datadir[2].rows) = 1 + Len(TARGETS)
    /\ viz[OUT].rows = <<HeaderRow, write_dict(sanitized_row(HeaderRow, datadir[2].rows[2]))>>

-----------------------------------------------------------------------------
(* Two invocations of the collector overlapping in time on one day file:   *)
(* the locals of the one that is not running are in cpark, and CSwitch     *)
(* passes from one to the other between any two steps                      *)

OverlapNows == {Clock(1, 0, 17, -420), Clock(1, 0, 18, -420)}

InitOverlap ==
    /\ \/ datadir = EmptyDir /\ tick = 1
       \/ datadir = EarlierDir /\ tick = 2
    /\ cpc = "idle" /\ inv = MaxInvocations - 1 /\ cenv = NoEnv /\ chost = 0
    /\ cbuf = <<>> /\ ptrace = <<>> /\ dir0 = datadir
    /\ cpark = [NoPark EXCEPT !.inv = MaxInvocations - 1, !.dir0 = datadir]
    /\ PingIdle /\ EnsureIdle /\ TransformIdle

NextOverlap ==
    \/ CStart(OverlapNows, MainEnvs, MainPhaseFiles)
    \/ CEnsure
    \/ CEnsureOpen
    \/ CEnsureHeader
    \/ CSpeedtest({TRUE}, PipeSpeedOutcomes)
    \/ COpen
    \/ CTarget(PipeTraces, PipePings)
    \/ CFlush
    \/ CClose
    \/ CSwitch

SpecOverlap == InitOverlap /\ [][NextOverlap]_vars

\* the rows an invocation, given by its locals, has handed to the file
Flushed(pc, host, buf) ==
    IF pc = "loop" THEN host - 1 - Len(buf)
    ELSE IF pc = "done" THEN Len(TARGETS)
    ELSE 0

\* the rows of the day file before the two invocations
RowsBefore ==
    IF \/ IsPrefix(EarlierDir[1].rows, dir0[1].rows)
       \/ IsPrefix(EarlierDir[1].rows, cpark.dir0[1].rows)
    THEN Len(EarlierDir[1].rows) ELSE 1

\* C17: with two collector invocations overlapping on one day file, also
\* when both start while the file does not exist, under every interleaving
\* of their steps the file they leave holds the header as its first row and
\* nowhere else, every row is whole, and the rows both invocations have
\* appended are all there.
C17_OverlapKeepsRows ==
    cpc = "done" /\ cpark.cpc = "done" =>
        LET rows == datadir[1].rows
        IN  /\ datadir[1].exists
            /\ rows # <<>>
            /\ rows[1] = HeaderRow
            /\ \A i \in 2..Len(rows) : rows[i] # HeaderRow /\ Len(rows[i]) = Len(FIELDNAMES)
            /\ Len(rows) = RowsBefore + Flushed(cpc, chost, cbuf)
                                      + Flushed(cpark.cpc, cpark.chost, cpark.cbuf)

-----------------------------------------------------------------------------
(* Two transform runs overlapping in time on one snapshot directory: the   *)
(* locals of the one that is not running are in tpark, and TSwitch passes  *)
(* from one to the other between any two steps                             *)

TwoRunsDirs ==
    {[EmptyDir EXCEPT ![1] = File(<<HeaderRow, RowCutoff, RowNow>>, 2)],
     [EmptyDir EXCEPT ![1] = File(<<HeaderRow, RowNow>>, 2)]}

InitTwoRuns ==
    /\ datadir \in TwoRunsDirs
    /\ tick = 4
    /\ viz \in VizStates
    /\ prev = viz
    /\ vizdir = (viz # EmptyViz)
    /\ tpc = "mkdir" /\ tenv = NoTEnv /\ printed = NotPrinted
    /\ tpark = [NoTPark EXCEPT !.tpc = "mkdir"]
    /\ CollectorIdle /\ PingIdle /\ EnsureIdle

NextTwoRuns ==
    \/ TMkdir
    \/ TSelect(TNows)
    \/ TRead
    \/ TOpenTmp
    \/ TWrite
    \/ TClose
    \/ TRename
    \/ TPrint
    \/ TSwitch

SpecTwoRuns == InitTwoRuns /\ [][NextTwoRuns]_vars

\* the snapshot a run, given by its locals, publishes
CompleteOf(env) ==
    [exists |-> TRUE,
     rows   |-> <<env.fieldnames>>
                    \o [k \in 1..Len(env.rows_out) |-> write_dict(env.rows_out[k])]]

\* C18: with two transform runs overlapping, under every interleaving of
\* their open, write, close and rename steps the snapshot path holds at all
\* times the snapshot published before the runs or the complete output of
\* one of the two runs, and no run has it open for writing.
C18_OverlapSnapshotWhole ==
    /\ \/ viz[OUT] = prev[OUT]
       \/ tpc \in {"print", "done"} /\ viz[OUT] = CompleteOf(tenv)
       \/ tpark.tpc \in {"print", "done"} /\ viz[OUT] = CompleteOf(tpark.tenv)
    /\ tenv.at # OUT
    /\ tpark.tenv.at # OUT

====
